---- MODULE Spec2Model ----
(***************************************************************************)
(* Order fulfilment dashboards of src/src/OrderFulfillmentDashboard.jsx.   *)
(*                                                                         *)
(* The file holds the per-user dashboard (App, lines 82-467: the private   *)
(* collection artifacts/<app>/users/<uid>/orders) and the collaborative    *)
(* dashboard (App, lines 958-1334: the shared collection                   *)
(* artifacts/<app>/public/data/orders plus the user's marketplace          *)
(* integrations).  `variant` says which of the two is mounted.             *)
(*                                                                         *)
(* A JavaScript object is a TLA+ record whose DOMAIN is the set of fields  *)
(* the object has: a missing field is a field outside the DOMAIN.          *)
(* A JavaScript string that the code lowercases or searches is a sequence  *)
(* of one-character strings.                                               *)
(***************************************************************************)
EXTENDS Integers, Sequences, FiniteSets, TLC

Null == "null"

\* Largest number of documents in one snapshot delivery.
MaxDocs == 2

\* Largest number of adapter writes awaiting their outcome at one time.
MaxPending == 2

DocIds == 1..3

Users == {"u1", "u2"}

\* Values Date.now() takes when a delivery is materialised (milliseconds).
NowValues == {2000}

Range(s) == {s[i] : i \in 1..Len(s)}

Has(o, f) == f \in DOMAIN o

(***************************************************************************)
(* Strings                                                                 *)
(***************************************************************************)
LowerChar(c) == CASE c = "A" -> "a" [] c = "B" -> "b" [] OTHER -> c

toLowerCase(s) == [i \in 1..Len(s) |-> LowerChar(s[i])]

\* String.prototype.includes: t occurs in s as a contiguous substring.
includes(s, t) ==
    \E i \in 0..(Len(s) - Len(t)) : SubSeq(s, i + 1, i + Len(t)) = t

CharRank(c) == CASE c = "a" -> 1 [] c = "b" -> 2 [] OTHER -> 3

\* a.localeCompare(b) <= 0 for strings of lowercase letters.
RECURSIVE localeCompareLeq(_, _)
localeCompareLeq(a, b) ==
    IF a = <<>> THEN TRUE
    ELSE IF b = <<>> THEN FALSE
    ELSE IF CharRank(Head(a)) # CharRank(Head(b))
         THEN CharRank(Head(a)) < CharRank(Head(b))
         ELSE localeCompareLeq(Tail(a), Tail(b))

(***************************************************************************)
(* The status set of the collaborative dashboard                           *)
(***************************************************************************)
STATUS_OPTIONS == <<"new", "preparing", "ready_to_ship", "shipped", "cancelled">>

StatusValues == Range(STATUS_OPTIONS)

FilterValues == {"all"} \cup StatusValues

SearchTerms == {<<>>, <<"A">>, <<"b">>}

(***************************************************************************)
(* Documents the store delivers                                            *)
(*                                                                         *)
(* The shared orders collection is written by every user of the app and by *)
(* the marketplace synchronisation, so a document may lack any field.      *)
(* The private per-user collection is written by addOrder alone, which     *)
(* refuses an empty customerName (line 217).                               *)
(***************************************************************************)
OrderBodies ==
    { [status |-> "new", order_id |-> <<"A">>, customer_name |-> <<"a">>,
       marketplace |-> <<"a">>, order_date |-> [seconds |-> 2]],
      [status |-> "shipped", order_id |-> <<"b">>, marketplace |-> <<"a">>],
      [status |-> "preparing", customer_name |-> <<"A">>,
       marketplace |-> <<"b">>, order_date |-> [seconds |-> 1]] }

PerUserBodies ==
    { [customerName |-> <<"b">>, item |-> "x", quantity |-> 1, status |-> "Pending"],
      [customerName |-> <<"a">>, item |-> "y", quantity |-> 2, status |-> "Delivered"] }

MarketplaceBodies ==
    { [marketplace |-> <<"a">>, nickname |-> "shop"] }

DocsOf(bodies) == {[id |-> i, data |-> b] : i \in DocIds, b \in bodies}

\* Every snapshot of at most MaxDocs documents with distinct document ids.
SnapshotsOf(bodies) ==
    UNION { { s \in [1..n -> DocsOf(bodies)] :
                \A i, j \in 1..n : i # j => s[i].id # s[j].id } : n \in 0..MaxDocs }

OrderSnapshots == SnapshotsOf(OrderBodies)

PerUserSnapshots == SnapshotsOf(PerUserBodies)

\* The snapshots of the user's integrations: none linked, or one.
MarketplaceSnapshots ==
    {<<>>} \cup {<<[id |-> 1, data |-> b]>> : b \in MarketplaceBodies}

(***************************************************************************)
(* State                                                                   *)
(***************************************************************************)
VARIABLES
    variant,                \* "collab" or "perUser": the dashboard mounted
    firebaseConfig,         \* Null or "valid"
    mounted,                \* the mount effects have run
    db,                     \* the Firestore handle is set
    authListening,          \* the onAuthStateChanged observer is attached
    signInPending,          \* a signIn... call awaits its outcome
    userId,                 \* Null or the uid
    isAuthReady,            \* collaborative dashboard
    isFirebaseReady,        \* per-user dashboard
    orders,                 \* the orders cache
    linkedMarketplaces,     \* the integrations cache
    loading,                \* collaborative dashboard
    isLoading,              \* per-user dashboard
    error,                  \* Null or the kind of the message set
    filter,
    searchTerm,
    filteredOrders,         \* the memoised derived view
    ordersListening,        \* the orders onSnapshot listener is attached
    marketplacesListening,  \* the marketplaces onSnapshot listener is attached
    crashed,                \* a render threw: React unmounted the tree
    inflight,               \* adapter writes awaiting their outcome
    lastAlert,              \* Null or the kind of the latest alert() shown
    liveListeners,          \* the onSnapshot listeners not yet unsubscribed
    pendingAuth,            \* Null or the notification the auth observer is due
    adding,                 \* the addDoc calls the mounted AddOrderForm awaits
    lastDelivery            \* history: the latest orders snapshot delivered

vars == <<variant, firebaseConfig, mounted, db, authListening, signInPending,
          userId, isAuthReady, isFirebaseReady, orders, linkedMarketplaces,
          loading, isLoading, error, filter, searchTerm, filteredOrders,
          ordersListening, marketplacesListening, crashed, inflight,
          lastAlert, liveListeners, pendingAuth, adding, lastDelivery>>

authVars == <<db, authListening, signInPending, userId, isAuthReady,
              isFirebaseReady, mounted>>

viewVars == <<filter, searchTerm>>

Init ==
    /\ variant \in {"collab", "perUser"}
    /\ firebaseConfig \in {Null, "valid"}
    /\ mounted = FALSE
    /\ db = FALSE
    /\ authListening = FALSE
    /\ signInPending = FALSE
    /\ userId = Null
    /\ isAuthReady = FALSE
    /\ isFirebaseReady = FALSE
    /\ orders = <<>>
    /\ linkedMarketplaces = <<>>
    /\ loading = TRUE
    /\ isLoading = TRUE
    /\ error = Null
    /\ filter = "all"
    /\ searchTerm = <<>>
    /\ filteredOrders = <<>>
    /\ ordersListening = FALSE
    /\ marketplacesListening = FALSE
    /\ crashed = FALSE
    /\ inflight = {}
    /\ lastAlert = Null
    /\ liveListeners = {}
    /\ pendingAuth = Null
    /\ adding = {}
    /\ lastDelivery = [delivered |-> FALSE, user |-> Null, docs |-> <<>>]

(***************************************************************************)
(* Snapshot materialisation                                                *)
(***************************************************************************)
\* snapshot.docs.map callback, lines 1043-1048:
\*   { id: doc.id, ...doc.data(), order_date: <Date> }
\* The spread comes after id, the date is a Date (here its getTime()).
fetchedOrder(doc, now) ==
    [f \in {"id", "order_date"} \cup DOMAIN doc.data |->
        IF f = "order_date"
        THEN IF Has(doc.data, "order_date")
             THEN doc.data.order_date.seconds * 1000
             ELSE now
        ELSE IF Has(doc.data, f) THEN doc.data[f] ELSE doc.id]

\* Variant: the delivery is merged into the cache by id instead of replacing
\* it, so an entry whose document left the collection stays.
fetchedOrdersMerged(docs, now) ==
    SelectSeq(orders, LAMBDA o : \A i \in 1..Len(docs) : docs[i].id # o.id)
        \o [i \in 1..Len(docs) |-> fetchedOrder(docs[i], now)]

fetchedOrders(docs, now) == [i \in 1..Len(docs) |-> fetchedOrder(docs[i], now)]

\* querySnapshot.forEach callback, lines 179-181: { id: doc.id, ...doc.data() }
perUserFetchedOrder(doc) ==
    [f \in {"id"} \cup DOMAIN doc.data |->
        IF Has(doc.data, f) THEN doc.data[f] ELSE doc.id]

\* Array.prototype.sort is stable: x goes behind every element it does not
\* strictly precede.
InsertByName(sorted, x) ==
    LET k == Cardinality({i \in 1..Len(sorted) :
                            localeCompareLeq(sorted[i].customerName, x.customerName)})
    IN  SubSeq(sorted, 1, k) \o <<x>> \o SubSeq(sorted, k + 1, Len(sorted))

\* fetchedOrders.sort((a, b) => a.customerName.localeCompare(b.customerName)), line 182
RECURSIVE sortByCustomerName(_)
sortByCustomerName(s) ==
    IF s = <<>> THEN <<>>
    ELSE InsertByName(sortByCustomerName(SubSeq(s, 1, Len(s) - 1)), s[Len(s)])

perUserFetchedOrders(docs) ==
    sortByCustomerName([i \in 1..Len(docs) |-> perUserFetchedOrder(docs[i])])

(***************************************************************************)
(* The derived view: filteredOrders (useMemo, lines 1069-1088)             *)
(***************************************************************************)
\* Variant: the comparison of line 1073 negated (!== for ===).
filterByStatusNegated(o, f) ==
    SelectSeq(o, LAMBDA order : ~(Has(order, "status") /\ order.status = f))

\* orders.filter(order => order.status === filter), line 1073
filterByStatus(o, f) ==
    SelectSeq(o, LAMBDA order : Has(order, "status") /\ order.status = f)

SearchFields == <<"order_id", "customer_name", "marketplace">>

\* The || chain of lines 1079-1081 from the k-th field on: "throw" when
\* toLowerCase is called on a missing field, "keep" at the first field that
\* includes the term (the later fields are not evaluated), else "drop".
RECURSIVE searchOutcome(_, _, _)
searchOutcome(order, searchLower, k) ==
    IF k > Len(SearchFields) THEN "drop"
    ELSE IF ~Has(order, SearchFields[k]) THEN "throw"
    ELSE IF includes(toLowerCase(order[SearchFields[k]]), searchLower) THEN "keep"
    ELSE searchOutcome(order, searchLower, k + 1)

\* x goes behind every element whose date is not earlier than its own.
InsertByDate(sorted, x) ==
    LET k == Cardinality({i \in 1..Len(sorted) :
                            sorted[i].order_date >= x.order_date})
    IN  SubSeq(sorted, 1, k) \o <<x>> \o SubSeq(sorted, k + 1, Len(sorted))

\* Variant: a sort that is not stable, putting x before the elements of its
\* own date.
RECURSIVE sortByOrderDateUnstable(_)
sortByOrderDateUnstable(s) ==
    IF s = <<>> THEN <<>>
    ELSE LET sorted == sortByOrderDateUnstable(SubSeq(s, 1, Len(s) - 1))
             x      == s[Len(s)]
             k      == Cardinality({i \in 1..Len(sorted) :
                                      sorted[i].order_date > x.order_date})
         IN  SubSeq(sorted, 1, k) \o <<x>> \o SubSeq(sorted, k + 1, Len(sorted))

\* currentOrders.sort((a, b) => b.order_date.getTime() - a.order_date.getTime()),
\* line 1087: a stable sort, most recent first.
RECURSIVE sortByOrderDate(_)
sortByOrderDate(s) ==
    IF s = <<>> THEN <<>>
    ELSE InsertByDate(sortByOrderDate(SubSeq(s, 1, Len(s) - 1)), s[Len(s)])

\* One evaluation of the memo function on the cache o.  value: the sequence
\* returned; threw: a TypeError left the function; orders: the cache array
\* afterwards (sort works in place, and with filter "all" and no search term
\* currentOrders is the cache array itself).
useMemoFilteredOrders(o, f, term) ==
    LET byStatus    == IF f = "all" THEN o ELSE filterByStatus(o, f)
        searchLower == toLowerCase(term)
        throws      == \E i \in 1..Len(byStatus) :
                          searchOutcome(byStatus[i], searchLower, 1) = "throw"
        bySearch    == SelectSeq(byStatus,
                          LAMBDA order : searchOutcome(order, searchLower, 1) = "keep")
    IN  IF term # <<>>
        THEN IF throws
             THEN [threw |-> TRUE, value |-> <<>>, orders |-> o]
             ELSE [threw |-> FALSE, value |-> sortByOrderDate(bySearch), orders |-> o]
        ELSE [threw |-> FALSE, value |-> sortByOrderDate(byStatus),
              orders |-> IF f = "all" THEN sortByOrderDate(o) ELSE o]

\* What the render shows (collaborative: lines 1207-1231; per-user: 268, 390).
Screen ==
    IF crashed THEN "blank"
    ELSE IF variant = "collab"
         THEN IF loading \/ ~isAuthReady THEN "loading"
              ELSE IF error # Null THEN "error"
              ELSE "dashboard"
         ELSE IF isLoading THEN "loading" ELSE "dashboard"

(***************************************************************************)
(* Collaborative dashboard: initialisation and authentication              *)
(***************************************************************************)
\* Variant: the guard looks at the store handle alone.
subscribesOnHandleOnly(ready, d, u) == d

\* The guard of the subscription effect, line 1027.
subscribes(ready, d, u) == ready /\ d /\ u # Null

\* The listeners one run of the subscription effect attaches for the user
\* (onSnapshot, lines 1032 and 1042).
attached(u) ==
    {[cache |-> "marketplaces", user |-> u], [cache |-> "orders", user |-> u]}

\* Variant: the cleanup calls unsubscribeOrders alone.
cleanupOrdersOnly(ls) == {l \in ls : l.cache # "orders"}

\* Variant: the cleanup calls unsubscribeMarketplaces alone.
cleanupMarketplacesOnly(ls) == {l \in ls : l.cache # "marketplaces"}

\* The cleanup of the subscription effect, lines 1057-1060:
\* unsubscribeOrders(); unsubscribeMarketplaces().  The listeners left.
cleanup(ls) == {l \in ls : l.cache \notin {"orders", "marketplaces"}}

\* The subscription effect (lines 1026-1065) after a render in which
\* isAuthReady, db and userId have the primed values: when a dependency
\* changed, the cleanup detaches both listeners and the effect attaches
\* them again if its guard lets it; otherwise the listeners stay as they are.
SubscriptionEffect ==
    LET changed == <<isAuthReady', db', userId'>> # <<isAuthReady, db, userId>>
        now     == subscribes(isAuthReady', db', userId')
    IN  /\ ordersListening' = IF changed THEN now ELSE ordersListening
        /\ marketplacesListening' = IF changed THEN now ELSE marketplacesListening
        /\ liveListeners' =
             IF changed
             THEN cleanup(liveListeners) \cup (IF now THEN attached(userId') ELSE {})
             ELSE liveListeners

\* Mount effect, lines 973-1008, and the subscription effect of the render
\* that follows setDb.
InitEffectSteps ==
    /\ variant = "collab"
    /\ ~mounted
    /\ mounted' = TRUE
    /\ IF firebaseConfig = Null
       THEN /\ error' = "config"
            /\ loading' = FALSE
            /\ UNCHANGED <<db, authListening>>
       ELSE \E initThrows \in BOOLEAN :
               IF initThrows
               THEN /\ error' = "init"
                    /\ loading' = FALSE
                    /\ UNCHANGED <<db, authListening>>
               ELSE /\ db' = TRUE
                    /\ authListening' = TRUE
                    /\ UNCHANGED <<error, loading>>
    /\ UNCHANGED <<userId, isAuthReady>>
    /\ SubscriptionEffect
    /\ UNCHANGED <<variant, firebaseConfig, signInPending, isFirebaseReady,
                   orders, linkedMarketplaces, isLoading, filter, searchTerm,
                   filteredOrders, crashed, inflight, lastDelivery, lastAlert,
                   adding>>

InitEffect == InitEffectSteps /\ UNCHANGED pendingAuth

\* onAuthStateChanged callback with a user, lines 990-991 and 999.  A render
\* of App mounts a new AddOrderForm (the component is defined in App, line
\* 1124), whose isAdding starts false.
AuthStateChangedUserSteps(user) ==
    /\ variant = "collab"
    /\ authListening
    /\ ~crashed
    /\ userId' = user
    /\ isAuthReady' = TRUE
    /\ UNCHANGED db
    /\ SubscriptionEffect
    /\ adding' = IF <<user, TRUE>> # <<userId, isAuthReady>> THEN {} ELSE adding
    /\ UNCHANGED <<variant, firebaseConfig, mounted, authListening,
                   signInPending, isFirebaseReady, orders, linkedMarketplaces,
                   loading, isLoading, error, filter, searchTerm, filteredOrders,
                   crashed, inflight, lastDelivery, lastAlert>>

AuthStateChangedUser(user) ==
    AuthStateChangedUserSteps(user) /\ UNCHANGED pendingAuth

\* onAuthStateChanged callback without a user, lines 992-998: the callback
\* awaits signInWithCustomToken or signInAnonymously.
AuthStateChangedNoUserSteps ==
    /\ variant = "collab"
    /\ authListening
    /\ ~crashed
    /\ ~signInPending
    /\ signInPending' = TRUE
    /\ UNCHANGED <<variant, firebaseConfig, mounted, db, authListening, userId,
                   isAuthReady, isFirebaseReady, orders, linkedMarketplaces,
                   loading, isLoading, error, filter, searchTerm, filteredOrders,
                   ordersListening, marketplacesListening, crashed, inflight,
                   lastDelivery, lastAlert, liveListeners, adding>>

AuthStateChangedNoUser == AuthStateChangedNoUserSteps /\ UNCHANGED pendingAuth

\* The awaited sign-in settles: fulfilled, the callback goes on to line 999;
\* rejected, the async callback ends with the rejection.
SignInSettlesSteps(ok) ==
    /\ variant = "collab"
    /\ signInPending
    /\ ~crashed
    /\ signInPending' = FALSE
    /\ isAuthReady' = IF ok THEN TRUE ELSE isAuthReady
    /\ UNCHANGED <<db, userId>>
    /\ SubscriptionEffect
    /\ adding' = IF ok /\ ~isAuthReady THEN {} ELSE adding
    /\ UNCHANGED <<variant, firebaseConfig, mounted, authListening,
                   isFirebaseReady, orders, linkedMarketplaces, loading,
                   isLoading, error, filter, searchTerm, filteredOrders, crashed,
                   inflight, lastDelivery, lastAlert>>

SignInSettles(ok) == SignInSettlesSteps(ok) /\ UNCHANGED pendingAuth

(***************************************************************************)
(* Collaborative dashboard: deliveries                                     *)
(*                                                                         *)
(* The store delivers to a listener until the listener is unsubscribed or  *)
(* has reported an error: a delivery is a step of a listener of            *)
(* liveListeners.                                                          *)
(***************************************************************************)
\* The render that follows a change of orders, filter or searchTerm
\* evaluates the memo on the cache o: the cache keeps what the in-place sort
\* left, and a TypeError in the render unmounts the tree, whose effect
\* cleanups detach every listener.
Render(o, f, term) ==
    \E m \in {useMemoFilteredOrders(o, f, term)} :
        /\ orders' = m.orders
        /\ filteredOrders' = m.value
        /\ crashed' = m.threw
        /\ ordersListening' = (ordersListening /\ ~m.threw)
        /\ marketplacesListening' = (marketplacesListening /\ ~m.threw)
        /\ authListening' = (authListening /\ ~m.threw)
        /\ liveListeners' = IF m.threw THEN {} ELSE liveListeners

\* unsubscribeOrders onSnapshot success callback, lines 1042-1050, called
\* for the listener l.
OrdersSnapshotBy(l, docs, now) ==
    /\ variant = "collab"
    /\ l \in liveListeners
    /\ l.cache = "orders"
    /\ ~crashed
    /\ loading' = FALSE
    /\ lastDelivery' = [delivered |-> TRUE, user |-> l.user, docs |-> docs]
    /\ adding' = {}
    /\ Render(fetchedOrders(docs, now), filter, searchTerm)
    /\ UNCHANGED <<variant, firebaseConfig, mounted, db, signInPending, userId,
                   isAuthReady, isFirebaseReady, linkedMarketplaces, isLoading,
                   error, filter, searchTerm, inflight, lastAlert, pendingAuth>>

OrdersSnapshot(docs, now) ==
    \E l \in liveListeners : OrdersSnapshotBy(l, docs, now)

\* unsubscribeOrders onSnapshot error callback, lines 1051-1055, called for
\* the listener l.  Firestore delivers nothing more to a listener after its
\* error.
OrdersErrorBy(l) ==
    /\ variant = "collab"
    /\ l \in liveListeners
    /\ l.cache = "orders"
    /\ ~crashed
    /\ error' = "orders"
    /\ loading' = FALSE
    /\ ordersListening' = FALSE
    /\ liveListeners' = liveListeners \ {l}
    /\ adding' = {}
    /\ UNCHANGED <<variant, firebaseConfig, mounted, db, authListening,
                   signInPending, userId, isAuthReady, isFirebaseReady, orders,
                   linkedMarketplaces, isLoading, filter, searchTerm,
                   filteredOrders, marketplacesListening, crashed, inflight,
                   lastDelivery, lastAlert, pendingAuth>>

\* Variant: the error callback also empties the cache (setOrders([])).
OrdersErrorClearing ==
    \E l \in liveListeners :
        /\ variant = "collab"
        /\ l.cache = "orders"
        /\ ~crashed
        /\ error' = "orders"
        /\ loading' = FALSE
        /\ ordersListening' = FALSE
        /\ liveListeners' = liveListeners \ {l}
        /\ adding' = {}
        /\ orders' = <<>>
        /\ UNCHANGED <<variant, firebaseConfig, mounted, db, authListening,
                       signInPending, userId, isAuthReady, isFirebaseReady,
                       linkedMarketplaces, isLoading, filter, searchTerm,
                       filteredOrders, marketplacesListening, crashed, inflight,
                       lastDelivery, lastAlert, pendingAuth>>

OrdersError == \E l \in liveListeners : OrdersErrorBy(l)

\* snapshot.docs.map callback, lines 1033-1036.
linkedMarketplace(doc) ==
    [f \in {"id"} \cup DOMAIN doc.data |->
        IF Has(doc.data, f) THEN doc.data[f] ELSE doc.id]

\* unsubscribeMarketplaces onSnapshot success callback, lines 1032-1036,
\* called for the listener l.
MarketplacesSnapshotBy(l, docs) ==
    /\ variant = "collab"
    /\ l \in liveListeners
    /\ l.cache = "marketplaces"
    /\ ~crashed
    /\ linkedMarketplaces' = [i \in 1..Len(docs) |-> linkedMarketplace(docs[i])]
    /\ adding' = {}
    /\ UNCHANGED <<variant, firebaseConfig, mounted, db, authListening,
                   signInPending, userId, isAuthReady, isFirebaseReady, orders,
                   loading, isLoading, error, filter, searchTerm, filteredOrders,
                   ordersListening, marketplacesListening, crashed, inflight,
                   lastDelivery, lastAlert, liveListeners, pendingAuth>>

MarketplacesSnapshot(docs) ==
    \E l \in liveListeners : MarketplacesSnapshotBy(l, docs)

\* unsubscribeMarketplaces onSnapshot error callback, line 1037:
\* console.error, called for the listener l.
MarketplacesErrorBy(l) ==
    /\ variant = "collab"
    /\ l \in liveListeners
    /\ l.cache = "marketplaces"
    /\ ~crashed
    /\ marketplacesListening' = FALSE
    /\ liveListeners' = liveListeners \ {l}
    /\ UNCHANGED <<variant, firebaseConfig, mounted, db, authListening,
                   signInPending, userId, isAuthReady, isFirebaseReady, orders,
                   linkedMarketplaces, loading, isLoading, error, filter,
                   searchTerm, filteredOrders, ordersListening, crashed,
                   inflight, lastDelivery, lastAlert, pendingAuth, adding>>

MarketplacesError == \E l \in liveListeners : MarketplacesErrorBy(l)

(***************************************************************************)
(* Collaborative dashboard: filter and search controls                     *)
(***************************************************************************)
\* <select> onChange, line 1256.
SetFilter(f) ==
    /\ variant = "collab"
    /\ Screen = "dashboard"
    /\ f # filter
    /\ filter' = f
    /\ adding' = {}
    /\ Render(orders, f, searchTerm)
    /\ UNCHANGED <<variant, firebaseConfig, mounted, db, signInPending, userId,
                   isAuthReady, isFirebaseReady, linkedMarketplaces, loading,
                   isLoading, error, searchTerm, inflight, lastDelivery, lastAlert, pendingAuth>>

\* search <input> onChange, line 1250.
SetSearchTerm(term) ==
    /\ variant = "collab"
    /\ Screen = "dashboard"
    /\ term # searchTerm
    /\ searchTerm' = term
    /\ adding' = {}
    /\ Render(orders, filter, term)
    /\ UNCHANGED <<variant, firebaseConfig, mounted, db, signInPending, userId,
                   isAuthReady, isFirebaseReady, linkedMarketplaces, loading,
                   isLoading, error, filter, inflight, lastDelivery, lastAlert, pendingAuth>>

(***************************************************************************)
(* Collaborative dashboard: writes                                         *)
(*                                                                         *)
(* A handler calls the adapter (addDoc, updateDoc, deleteDoc) and awaits   *)
(* the promise: the call is in `inflight` from the call to its outcome.    *)
(***************************************************************************)
\* getOrderCollectionRef, lines 1012-1016: null without db or userId.
getOrderCollectionRef == IF ~db \/ userId = Null THEN Null ELSE "orders"

\* The path of the collection getOrderCollectionRef returns, line 1015.
orderCollectionPath == <<"artifacts", "public", "data", "orders">>

\* The option a status <select> shows as selected (value={order.status},
\* line 1301): the first option when the value matches none.
selectedStatus(order) ==
    IF Has(order, "status") /\ order.status \in StatusValues
    THEN order.status
    ELSE STATUS_OPTIONS[1]

\* The status the cache holds for the order when the request is made.
currentStatus(order) == IF Has(order, "status") THEN order.status ELSE "undefined"

\* Variant: the handler writes the whole order back with the new status
\* ({ ...order, status: newStatus, ... }).
statusPatchWholeOrder(order, newStatus, now) ==
    [f \in DOMAIN order \cup {"status", "updated_by", "updated_at"} |->
        CASE f = "status" -> newStatus
          [] f = "updated_by" -> userId
          [] f = "updated_at" -> now
          [] OTHER -> order[f]]

\* The second argument of updateDoc, lines 1095-1099.
statusPatch(order, newStatus, now) ==
    [status |-> newStatus, updated_by |-> userId, updated_at |-> now]

\* handleUpdateStatus, lines 1092-1106, called by the status <select> of the
\* i-th row shown (lines 1300-1310) with the option chosen.  With no
\* collection reference, .path throws before any adapter call.
handleUpdateStatus(i, newStatus) ==
    /\ variant = "collab"
    /\ Screen = "dashboard"
    /\ i \in 1..Len(filteredOrders)
    /\ newStatus # selectedStatus(filteredOrders[i])
    /\ Cardinality(inflight) < MaxPending
    /\ \E now \in NowValues :
         inflight' =
           IF getOrderCollectionRef = Null
           THEN inflight
           ELSE inflight \cup
                  {[op |-> "update", id |-> filteredOrders[i].id,
                    from |-> currentStatus(filteredOrders[i]),
                    path |-> orderCollectionPath,
                    patch |-> statusPatch(filteredOrders[i], newStatus, now)]}
    /\ UNCHANGED <<variant, firebaseConfig, mounted, db, authListening,
                   signInPending, userId, isAuthReady, isFirebaseReady, orders,
                   linkedMarketplaces, loading, isLoading, error, filter,
                   searchTerm, filteredOrders, ordersListening,
                   marketplacesListening, crashed, lastDelivery, lastAlert,
                   liveListeners, pendingAuth, adding>>

\* Variant: a rejected updateDoc is issued again instead of being given up.
UpdateSettlesRetrying(w, ok) ==
    /\ variant = "collab"
    /\ ~crashed
    /\ w \in inflight
    /\ w.op = "update"
    /\ inflight' = IF ok THEN inflight \ {w} ELSE inflight
    /\ error' = IF ok THEN error ELSE "update"
    /\ adding' = IF ok THEN adding ELSE {}
    /\ UNCHANGED <<variant, firebaseConfig, mounted, db, authListening,
                   signInPending, userId, isAuthReady, isFirebaseReady, orders,
                   linkedMarketplaces, loading, isLoading, filter, searchTerm,
                   filteredOrders, ordersListening, marketplacesListening,
                   crashed, lastDelivery, lastAlert,
                   liveListeners, pendingAuth>>

\* The awaited updateDoc settles, lines 1100-1105: a rejection is caught
\* and reported through setError.
UpdateSettles(w, ok) ==
    /\ variant = "collab"
    /\ ~crashed
    /\ w \in inflight
    /\ w.op = "update"
    /\ inflight' = inflight \ {w}
    /\ error' = IF ok THEN error ELSE "update"
    /\ adding' = IF ok THEN adding ELSE {}
    /\ UNCHANGED <<variant, firebaseConfig, mounted, db, authListening,
                   signInPending, userId, isAuthReady, isFirebaseReady, orders,
                   linkedMarketplaces, loading, isLoading, filter, searchTerm,
                   filteredOrders, ordersListening, marketplacesListening,
                   crashed, lastDelivery, lastAlert,
                   liveListeners, pendingAuth>>

\* handleDeleteOrder, lines 1108-1120, called by the delete button of the
\* i-th row shown; confirmed is the answer to window.confirm.
handleDeleteOrder(i, confirmed) ==
    /\ variant = "collab"
    /\ Screen = "dashboard"
    /\ i \in 1..Len(filteredOrders)
    /\ Cardinality(inflight) < MaxPending
    /\ inflight' =
         IF ~confirmed \/ getOrderCollectionRef = Null
         THEN inflight
         ELSE inflight \cup
                {[op |-> "delete", id |-> filteredOrders[i].id,
                  path |-> orderCollectionPath, confirmed |-> TRUE]}
    /\ UNCHANGED <<variant, firebaseConfig, mounted, db, authListening,
                   signInPending, userId, isAuthReady, isFirebaseReady, orders,
                   linkedMarketplaces, loading, isLoading, error, filter,
                   searchTerm, filteredOrders, ordersListening,
                   marketplacesListening, crashed, lastDelivery, lastAlert,
                   liveListeners, pendingAuth, adding>>

\* The awaited deleteDoc settles, lines 1114-1119.
DeleteSettles(w, ok) ==
    /\ variant = "collab"
    /\ ~crashed
    /\ w \in inflight
    /\ w.op = "delete"
    /\ inflight' = inflight \ {w}
    /\ error' = IF ok THEN error ELSE "delete"
    /\ adding' = IF ok THEN adding ELSE {}
    /\ UNCHANGED <<variant, firebaseConfig, mounted, db, authListening,
                   signInPending, userId, isAuthReady, isFirebaseReady, orders,
                   linkedMarketplaces, loading, isLoading, filter, searchTerm,
                   filteredOrders, ordersListening, marketplacesListening,
                   crashed, lastDelivery, lastAlert,
                   liveListeners, pendingAuth>>

\* The contents of the AddOrderForm fields when the form is submitted
\* (formData, lines 1126-1132 and 1179-1194).  '' is the empty sequence.
FormDatas ==
    { [order_id |-> oid, customer_name |-> name, marketplace |-> <<"a">>,
       amount |-> "10", status |-> st] :
        oid \in {<<>>, <<"A">>}, name \in {<<>>, <<"a">>},
        st \in {"new", "shipped"} }

\* parseFloat of the amounts the forms hold.
parseFloat(a) == CASE a = "10" -> 10 [] OTHER -> 0

\* The decimal digits of Math.floor(Math.random() * 100000), line 1150.
RandomDigits == {<<"7">>}

\* newOrder, lines 1142-1153.
newOrderOf(formData, now, digits) ==
    [order_id |-> IF formData.order_id # <<>>
                  THEN formData.order_id
                  ELSE <<"O", "R", "D", "-">> \o digits,
     customer_name |-> formData.customer_name,
     marketplace |-> formData.marketplace,
     amount |-> parseFloat(formData.amount),
     status |-> formData.status,
     order_date |-> now,
     created_by |-> userId,
     updated_by |-> userId,
     source |-> formData.marketplace,
     items |-> <<[name |-> "Producto X", qty |-> 1]>>]

\* Variant: the form is rendered whatever linkedMarketplaces holds.
addOrderFormShownAlways == TRUE

\* The form is rendered only with a linked marketplace, lines 1171-1177.
addOrderFormShown == Len(linkedMarketplaces) # 0

\* handleAddOrder, lines 1139-1166, called by the submit event of the form,
\* whose button is disabled while isAdding (line 1196).  addDoc throws on a
\* null collection reference; the catch reports it.
handleAddOrder(formData, now, digits) ==
    /\ variant = "collab"
    /\ Screen = "dashboard"
    /\ addOrderFormShown
    /\ adding = {}
    /\ Cardinality(inflight) < MaxPending
    /\ IF getOrderCollectionRef = Null
       THEN /\ error' = "create"
            /\ adding' = {}
            /\ UNCHANGED inflight
       ELSE \E w \in {[op |-> "create", path |-> orderCollectionPath,
                       record |-> newOrderOf(formData, now, digits)]} :
               /\ inflight' = inflight \cup {w}
               /\ adding' = {w}
               /\ UNCHANGED error
    /\ UNCHANGED <<variant, firebaseConfig, mounted, db, authListening,
                   signInPending, userId, isAuthReady, isFirebaseReady, orders,
                   linkedMarketplaces, loading, isLoading, filter, searchTerm,
                   filteredOrders, ordersListening, marketplacesListening,
                   crashed, lastDelivery, lastAlert,
                   liveListeners, pendingAuth>>

\* The awaited addDoc settles, lines 1156-1165.
AddSettles(w, ok) ==
    /\ variant = "collab"
    /\ ~crashed
    /\ w \in inflight
    /\ w.op = "create"
    /\ inflight' = inflight \ {w}
    /\ error' = IF ok THEN error ELSE "create"
    /\ adding' = IF ok THEN adding \ {w} ELSE {}
    /\ UNCHANGED <<variant, firebaseConfig, mounted, db, authListening,
                   signInPending, userId, isAuthReady, isFirebaseReady, orders,
                   linkedMarketplaces, loading, isLoading, filter, searchTerm,
                   filteredOrders, ordersListening, marketplacesListening,
                   crashed, lastDelivery, lastAlert,
                   liveListeners, pendingAuth>>

(***************************************************************************)
(* Per-user dashboard                                                      *)
(***************************************************************************)
\* The guard of the subscription effect, line 167.
perUserSubscribes(ready, d, u) == ready /\ d /\ u # Null

\* Mount effect, lines 100-162.
PerUserInitEffect ==
    /\ variant = "perUser"
    /\ ~mounted
    /\ mounted' = TRUE
    /\ IF firebaseConfig = Null
       THEN /\ error' = "offline"
            /\ isLoading' = FALSE
            /\ UNCHANGED <<db, authListening, signInPending>>
       ELSE \E initThrows \in BOOLEAN :
               IF initThrows
               THEN /\ error' = "init"
                    /\ isLoading' = FALSE
                    /\ UNCHANGED <<db, authListening, signInPending>>
               ELSE /\ db' = TRUE
                    /\ authListening' = TRUE
                    /\ signInPending' = TRUE
                    /\ UNCHANGED <<error, isLoading>>
    /\ UNCHANGED <<variant, firebaseConfig, userId, isAuthReady, isFirebaseReady,
                   orders, linkedMarketplaces, loading, filter, searchTerm,
                   filteredOrders, ordersListening, marketplacesListening,
                   crashed, inflight, lastDelivery, lastAlert,
                   liveListeners, pendingAuth, adding>>

\* handleAuth, lines 125-138: a rejected sign-in is reported through setError.
PerUserSignInSettles(ok) ==
    /\ variant = "perUser"
    /\ signInPending
    /\ signInPending' = FALSE
    /\ error' = IF ok THEN error ELSE "auth"
    /\ UNCHANGED <<variant, firebaseConfig, mounted, db, authListening, userId,
                   isAuthReady, isFirebaseReady, orders, linkedMarketplaces,
                   loading, isLoading, filter, searchTerm, filteredOrders,
                   ordersListening, marketplacesListening, crashed, inflight,
                   lastDelivery, lastAlert,
                   liveListeners, pendingAuth, adding>>

\* The cleanup of the subscription effect, line 194: unsubscribe().  The
\* listeners left.
perUserCleanup(ls) == {l \in ls : l.cache # "orders"}

\* onAuthStateChanged callback, lines 140-150, and the subscription effect
\* (lines 165-196) of the render that follows: when db, userId or
\* isFirebaseReady changed, the cleanup detaches the listener and the effect
\* attaches one again if its guard lets it.
PerUserAuthStateChanged(user) ==
    /\ variant = "perUser"
    /\ authListening
    /\ userId' = user
    /\ isFirebaseReady' = TRUE
    /\ isLoading' = FALSE
    /\ ordersListening' =
         IF <<user, TRUE>> # <<userId, isFirebaseReady>>
         THEN perUserSubscribes(TRUE, db, user)
         ELSE ordersListening
    /\ liveListeners' =
         IF <<user, TRUE>> # <<userId, isFirebaseReady>>
         THEN perUserCleanup(liveListeners) \cup
                 (IF perUserSubscribes(TRUE, db, user)
                  THEN {[cache |-> "orders", user |-> user]}
                  ELSE {})
         ELSE liveListeners
    /\ UNCHANGED <<variant, firebaseConfig, mounted, db, authListening,
                   signInPending, isAuthReady, orders, linkedMarketplaces,
                   loading, error, filter, searchTerm, filteredOrders,
                   marketplacesListening, crashed, inflight, lastDelivery,
                   lastAlert, pendingAuth, adding>>

\* onSnapshot success callback, lines 177-184, called for the listener l.
PerUserSnapshotBy(l, docs) ==
    /\ variant = "perUser"
    /\ l \in liveListeners
    /\ l.cache = "orders"
    /\ orders' = perUserFetchedOrders(docs)
    /\ lastDelivery' = [delivered |-> TRUE, user |-> l.user, docs |-> docs]
    /\ UNCHANGED <<variant, firebaseConfig, mounted, db, authListening,
                   signInPending, userId, isAuthReady, isFirebaseReady,
                   linkedMarketplaces, loading, isLoading, error, filter,
                   searchTerm, filteredOrders, ordersListening,
                   marketplacesListening, crashed, inflight, lastAlert,
                   liveListeners, pendingAuth, adding>>

PerUserSnapshot(docs) == \E l \in liveListeners : PerUserSnapshotBy(l, docs)

\* onSnapshot error callback, lines 185-192, called for the listener l:
\* console.error only.
PerUserSnapshotErrorBy(l) ==
    /\ variant = "perUser"
    /\ l \in liveListeners
    /\ l.cache = "orders"
    /\ ordersListening' = FALSE
    /\ liveListeners' = liveListeners \ {l}
    /\ UNCHANGED <<variant, firebaseConfig, mounted, db, authListening,
                   signInPending, userId, isAuthReady, isFirebaseReady, orders,
                   linkedMarketplaces, loading, isLoading, error, filter,
                   searchTerm, filteredOrders, marketplacesListening, crashed,
                   inflight, lastDelivery, lastAlert, pendingAuth, adding>>

PerUserSnapshotError == \E l \in liveListeners : PerUserSnapshotErrorBy(l)

(***************************************************************************)
(* Per-user dashboard: writes                                              *)
(***************************************************************************)
\* `artifacts/${appId}/users/${userId}/${COLLECTION_NAME}`, lines 219, 238
\* and 255: a template literal, which renders a null userId as "null".
perUserPath == <<"artifacts", "users", userId, "orders">>

\* The contents of newOrder when the form is submitted (lines 92-97 and
\* 207-213): the form has no status field.
NewOrders ==
    { [customerName |-> name, item |-> item, quantity |-> 1, status |-> "Pending"] :
        name \in {<<>>, <<"a">>}, item \in {"", "x"} }

\* addOrder, lines 215-233; checkDbStatus, lines 199-205.
addOrder(newOrder, now) ==
    /\ variant = "perUser"
    /\ Screen = "dashboard"
    /\ Cardinality(inflight) < MaxPending
    /\ IF ~isFirebaseReady
       THEN /\ lastAlert' = "blocked"
            /\ UNCHANGED inflight
       ELSE IF newOrder.customerName = <<>> \/ newOrder.item = ""
       THEN UNCHANGED <<inflight, lastAlert>>
       ELSE /\ inflight' = inflight \cup
                  {[op |-> "create", path |-> perUserPath,
                    record |-> [customerName |-> newOrder.customerName,
                                item |-> newOrder.item,
                                quantity |-> newOrder.quantity,
                                status |-> newOrder.status,
                                createdAt |-> now,
                                updatedAt |-> now]]}
            /\ UNCHANGED lastAlert
    /\ UNCHANGED <<variant, firebaseConfig, mounted, db, authListening,
                   signInPending, userId, isAuthReady, isFirebaseReady, orders,
                   linkedMarketplaces, loading, isLoading, error, filter,
                   searchTerm, filteredOrders, ordersListening,
                   marketplacesListening, crashed, lastDelivery,
                   liveListeners, pendingAuth, adding>>

\* nextStatus of OrderCard, lines 317-342.
nextStatus(order) ==
    CASE Has(order, "status") /\ order.status = "Pending" -> "Processing"
      [] Has(order, "status") /\ order.status = "Processing" -> "Shipped"
      [] Has(order, "status") /\ order.status = "Shipped" -> "Delivered"
      [] Has(order, "status") /\ order.status = "Delivered" -> "Delivered"
      [] OTHER -> "Processing"

\* canAdvanceStatus of OrderCard, line 344.
canAdvanceStatus(order) == ~(Has(order, "status") /\ order.status = "Delivered")

\* updateOrderStatus, lines 235-250, called by the advance button of the
\* i-th card (lines 364-371).
updateOrderStatus(i, now) ==
    /\ variant = "perUser"
    /\ Screen = "dashboard"
    /\ i \in 1..Len(orders)
    /\ canAdvanceStatus(orders[i])
    /\ Cardinality(inflight) < MaxPending
    /\ IF ~isFirebaseReady
       THEN /\ lastAlert' = "blocked"
            /\ UNCHANGED inflight
       ELSE /\ inflight' = inflight \cup
                  {[op |-> "update", id |-> orders[i].id,
                    from |-> currentStatus(orders[i]),
                    path |-> perUserPath,
                    patch |-> [status |-> nextStatus(orders[i]),
                               updatedAt |-> now]]}
            /\ UNCHANGED lastAlert
    /\ UNCHANGED <<variant, firebaseConfig, mounted, db, authListening,
                   signInPending, userId, isAuthReady, isFirebaseReady, orders,
                   linkedMarketplaces, loading, isLoading, error, filter,
                   searchTerm, filteredOrders, ordersListening,
                   marketplacesListening, crashed, lastDelivery,
                   liveListeners, pendingAuth, adding>>

\* deleteOrder, lines 252-264, called by the delete button of the i-th card
\* (lines 377-382).  `confirmed` records whether the user was asked and
\* agreed before the call: deleteOrder asks nothing.
deleteOrder(i) ==
    /\ variant = "perUser"
    /\ Screen = "dashboard"
    /\ i \in 1..Len(orders)
    /\ Cardinality(inflight) < MaxPending
    /\ IF ~isFirebaseReady
       THEN /\ lastAlert' = "blocked"
            /\ UNCHANGED inflight
       ELSE /\ inflight' = inflight \cup
                  {[op |-> "delete", id |-> orders[i].id, path |-> perUserPath,
                    confirmed |-> FALSE]}
            /\ UNCHANGED lastAlert
    /\ UNCHANGED <<variant, firebaseConfig, mounted, db, authListening,
                   signInPending, userId, isAuthReady, isFirebaseReady, orders,
                   linkedMarketplaces, loading, isLoading, error, filter,
                   searchTerm, filteredOrders, ordersListening,
                   marketplacesListening, crashed, lastDelivery,
                   liveListeners, pendingAuth, adding>>

\* The awaited addDoc, updateDoc or deleteDoc settles: a rejection is caught
\* and reported through alert (lines 228-232, 246-249, 260-263).
PerUserWriteSettles(w, ok) ==
    /\ variant = "perUser"
    /\ w \in inflight
    /\ inflight' = inflight \ {w}
    /\ lastAlert' = IF ok THEN lastAlert ELSE w.op
    /\ UNCHANGED <<variant, firebaseConfig, mounted, db, authListening,
                   signInPending, userId, isAuthReady, isFirebaseReady, orders,
                   linkedMarketplaces, loading, isLoading, error, filter,
                   searchTerm, filteredOrders, ordersListening,
                   marketplacesListening, crashed, lastDelivery,
                   liveListeners, pendingAuth, adding>>

(***************************************************************************)
(* Specifications                                                          *)
(***************************************************************************)
\* Session and deliveries of both dashboards.
NextSync ==
    \/ InitEffect
    \/ \E user \in Users : AuthStateChangedUser(user)
    \/ AuthStateChangedNoUser
    \/ \E ok \in BOOLEAN : SignInSettles(ok)
    \/ \E docs \in OrderSnapshots, now \in NowValues :
          OrdersSnapshot(docs, now)
    \/ OrdersError
    \/ \E docs \in MarketplaceSnapshots : MarketplacesSnapshot(docs)
    \/ MarketplacesError
    \/ PerUserInitEffect
    \/ \E ok \in BOOLEAN : PerUserSignInSettles(ok)
    \/ \E user \in Users \cup {Null} : PerUserAuthStateChanged(user)
    \/ \E docs \in PerUserSnapshots : PerUserSnapshot(docs)
    \/ PerUserSnapshotError

\* The view controls of the collaborative dashboard.
NextControls ==
    \/ \E f \in FilterValues : SetFilter(f)
    \/ \E term \in SearchTerms : SetSearchTerm(term)

\* The writes of both dashboards.
NextMutation ==
    \/ \E i \in 1..Len(filteredOrders), newStatus \in StatusValues :
          handleUpdateStatus(i, newStatus)
    \/ \E w \in inflight, ok \in BOOLEAN : UpdateSettles(w, ok)
    \/ \E i \in 1..Len(filteredOrders), confirmed \in BOOLEAN :
          handleDeleteOrder(i, confirmed)
    \/ \E w \in inflight, ok \in BOOLEAN : DeleteSettles(w, ok)
    \/ \E formData \in FormDatas, now \in NowValues, digits \in RandomDigits :
          handleAddOrder(formData, now, digits)
    \/ \E w \in inflight, ok \in BOOLEAN : AddSettles(w, ok)
    \/ \E newOrder \in NewOrders, now \in NowValues : addOrder(newOrder, now)
    \/ \E i \in 1..Len(orders), now \in NowValues : updateOrderStatus(i, now)
    \/ \E i \in 1..Len(orders) : deleteOrder(i)
    \/ \E w \in inflight, ok \in BOOLEAN : PerUserWriteSettles(w, ok)

Next == NextSync \/ NextControls \/ NextMutation

Spec == Init /\ [][Next]_vars

\* Both dashboards from mount on: session, subscriptions, deliveries.
SpecSync == Init /\ [][NextSync]_vars

\* The collaborative dashboard of one signed-in user: deliveries of orders
\* and the view controls.
NextView ==
    \/ InitEffect
    \/ AuthStateChangedUser("u1")
    \/ \E docs \in OrderSnapshots, now \in NowValues :
          OrdersSnapshot(docs, now)
    \/ \E f \in FilterValues : SetFilter(f)
    \/ \E term \in SearchTerms : SetSearchTerm(term)

SpecView == Init /\ [][NextView]_vars

\* The collaborative dashboard of one signed-in user: deliveries of orders
\* and status updates.
NextUpdate ==
    \/ InitEffect
    \/ AuthStateChangedUser("u1")
    \/ \E docs \in OrderSnapshots, now \in NowValues : OrdersSnapshot(docs, now)
    \/ \E i \in 1..Len(filteredOrders), newStatus \in StatusValues :
          handleUpdateStatus(i, newStatus)
    \/ \E w \in inflight, ok \in BOOLEAN : UpdateSettles(w, ok)

SpecUpdate == Init /\ [][NextUpdate]_vars

\* A document of the shared collection written outside the dashboard with
\* a status the dashboard does not know.
ForeignOrderBody ==
    [status |-> "returned", order_id |-> <<"b">>, customer_name |-> <<"a">>,
     marketplace |-> <<"a">>, order_date |-> [seconds |-> 1]]

\* The deliveries of the shared collection while writes are followed.
WriteOrderSnapshots ==
    { <<>>,
      <<[id |-> 1, data |-> [status |-> "new", order_id |-> <<"A">>,
                             customer_name |-> <<"a">>, marketplace |-> <<"a">>,
                             order_date |-> [seconds |-> 2]]]>>,
      <<[id |-> 2, data |-> [status |-> "shipped", order_id |-> <<"b">>,
                             marketplace |-> <<"a">>]],
        [id |-> 1, data |-> ForeignOrderBody]>> }

\* The deliveries of the private collection while writes are followed.
WritePerUserSnapshots ==
    { <<>>,
      <<[id |-> 1, data |-> [customerName |-> <<"b">>, item |-> "x",
                             quantity |-> 1, status |-> "Pending"]]>>,
      <<[id |-> 1, data |-> [customerName |-> <<"b">>, item |-> "x",
                             quantity |-> 1, status |-> "Delivered"]],
        [id |-> 2, data |-> [customerName |-> <<"a">>, item |-> "y",
                             quantity |-> 2, status |-> "Pending"]]>>,
      <<[id |-> 1, data |-> [customerName |-> <<"b">>, item |-> "x",
                             quantity |-> 1, status |-> "Processing"]],
        [id |-> 2, data |-> [customerName |-> <<"a">>, item |-> "y",
                             quantity |-> 2, status |-> "Cancelled"]]>> }

\* Both dashboards: session, deliveries and the writes of the user.
NextWrites ==
    \/ InitEffect
    \/ AuthStateChangedUser("u1")
    \/ \E docs \in WriteOrderSnapshots, now \in NowValues :
          OrdersSnapshot(docs, now)
    \/ \E docs \in MarketplaceSnapshots : MarketplacesSnapshot(docs)
    \/ PerUserInitEffect
    \/ \E user \in {"u1", Null} : PerUserAuthStateChanged(user)
    \/ \E docs \in WritePerUserSnapshots : PerUserSnapshot(docs)
    \/ NextMutation

SpecWrites == Init /\ [][NextWrites]_vars

(***************************************************************************)
(* The session of the collaborative dashboard                              *)
(*                                                                         *)
(* The auth observer is notified when the auth state is first resolved     *)
(* (the persisted user, or none) and when a sign-in has succeeded;         *)
(* pendingAuth is the notification due.                                    *)
(***************************************************************************)
\* The mount effect attaches the observer (line 989), which is due the
\* first notification.
SessionInit ==
    \E first \in {"signedOut", "u1"} :
        /\ InitEffectSteps
        /\ pendingAuth' = IF db' THEN first ELSE pendingAuth

\* The observer's callback runs for the notification due (lines 989-1000).
ObserverNotifies ==
    /\ pendingAuth # Null
    /\ IF pendingAuth = "signedOut"
       THEN AuthStateChangedNoUserSteps
       ELSE AuthStateChangedUserSteps(pendingAuth)
    /\ pendingAuth' = Null

\* The awaited sign-in settles (lines 994 and 997); a sign-in that succeeded
\* makes the observer due a notification with the user.
SessionSignInSettles(ok) ==
    /\ SignInSettlesSteps(ok)
    /\ pendingAuth' = IF ok THEN "u1" ELSE pendingAuth

NextSession ==
    \/ SessionInit
    \/ ObserverNotifies
    \/ \E ok \in BOOLEAN : SessionSignInSettles(ok)
    \/ \E docs \in OrderSnapshots, now \in NowValues : OrdersSnapshot(docs, now)
    \/ OrdersError
    \/ \E docs \in MarketplaceSnapshots : MarketplacesSnapshot(docs)
    \/ MarketplacesError

SpecSession == Init /\ [][NextSession]_vars

\* The count an option of the filter <select> shows, line 1262:
\* orders.filter(o => o.status === s.value).length
statusCount(value) ==
    Cardinality({i \in 1..Len(orders) :
                    Has(orders[i], "status") /\ orders[i].status = value})

(***************************************************************************)
(* Properties                                                              *)
(***************************************************************************)
DeliveredIds == {lastDelivery.docs[i].id : i \in 1..Len(lastDelivery.docs)}

\* The cache entry o carries the fields of the delivered document d: every
\* field of the document with the document's value (the timestamp as the
\* Date of its seconds), and beyond them only id and order_date.
CarriesDocument(o, d) ==
    /\ DOMAIN o \subseteq DOMAIN d.data \cup {"id", "order_date"}
    /\ \A f \in DOMAIN d.data :
          /\ Has(o, f)
          /\ IF f = "order_date"
             THEN o[f] = d.data[f].seconds * 1000
             ELSE o[f] = d.data[f]

C2_ErrorKeepsCaches ==
    [][(OrdersError \/ MarketplacesError \/ PerUserSnapshotError)
         => (orders' = orders /\ linkedMarketplaces' = linkedMarketplaces)]_vars

\* The orders subscription has reported an error while both caches held
\* records.
C2_Witness ==
    /\ variant = "collab"
    /\ error = "orders"
    /\ ~ordersListening
    /\ orders # <<>>
    /\ linkedMarketplaces # <<>>

\* C3: when the orders subscription reports an error after a snapshot was
\* delivered, the dashboard is not replaced by the fatal error screen.
C3_SyncErrorIsWarningOnly ==
    (variant = "collab" /\ lastDelivery.delivered /\ error = "orders")
        => Screen # "error"

\* C4: the derived view shown is the one a further evaluation of the memo
\* on the cache, filter and search term of the state returns: evaluating it
\* again returns the same sequence, orders of equal order_date included.
C4_ViewDeterministic ==
    variant = "collab" =>
        LET again == useMemoFilteredOrders(orders, filter, searchTerm)
        IN  /\ again.threw = crashed
            /\ again.value = filteredOrders

\* The view shows two orders of equal order_date, computed on the cache
\* array itself.
C4_Witness ==
    /\ variant = "collab"
    /\ filter = "all"
    /\ searchTerm = <<>>
    /\ Len(filteredOrders) >= 2
    /\ filteredOrders[1].order_date = filteredOrders[2].order_date
    /\ filteredOrders[1].id > filteredOrders[2].id

Occurrences(s, x) == Cardinality({i \in 1..Len(s) : s[i] = x})

\* C5: with an empty search term the view holds each cached order whose
\* status equals the filter exactly once and no other order; with the
\* filter "all" it holds every cached order exactly once.
C5_StatusFilterExact ==
    (variant = "collab" /\ searchTerm = <<>>) =>
        /\ Range(filteredOrders) \subseteq Range(orders)
        /\ \A o \in Range(orders) :
              Occurrences(filteredOrders, o) =
                 IF filter = "all" \/ (Has(o, "status") /\ o.status = filter)
                 THEN 1 ELSE 0

\* A status filter keeps one cached order and leaves another out.
C5_Witness ==
    /\ variant = "collab"
    /\ searchTerm = <<>>
    /\ filter = "new"
    /\ Len(filteredOrders) = 1
    /\ Len(orders) = 2

\* The order passes the status filter of the state.
PassesStatusFilter(o) == filter = "all" \/ (Has(o, "status") /\ o.status = filter)

\* The lowercased term is a substring of a lowercased searchable field the
\* order has.
TermInSomeField(o) ==
    \E k \in 1..Len(SearchFields) :
        /\ Has(o, SearchFields[k])
        /\ includes(toLowerCase(o[SearchFields[k]]), toLowerCase(searchTerm))

LacksSearchField(o) == \E k \in 1..Len(SearchFields) : ~Has(o, SearchFields[k])

\* C6: with a non-empty search term, a cached order that passes the status
\* filter is in the view if and only if the lowercased term is a substring
\* of its lowercased order_id, customer_name or marketplace.
C6_SearchKeepsExactlyMatches ==
    (variant = "collab" /\ searchTerm # <<>>) =>
        \A o \in Range(orders) :
            PassesStatusFilter(o) =>
                (o \in Range(filteredOrders) <=> TermInSomeField(o))

\* C7: with a non-empty search term and a cached order that lacks a
\* searchable field, the view is computed without an error, and such an order
\* is in the view when another of its fields contains the term.
C7_MissingFieldIsNonMatch ==
    (/\ variant = "collab"
     /\ searchTerm # <<>>
     /\ \E o \in Range(orders) : PassesStatusFilter(o) /\ LacksSearchField(o))
        => /\ ~crashed
           /\ \A o \in Range(orders) :
                 (PassesStatusFilter(o) /\ LacksSearchField(o) /\ TermInSomeField(o))
                     => o \in Range(filteredOrders)

\* The rearrangements of the sequence s.
PermutationsOf(s) ==
    { [i \in 1..Len(s) |-> s[p[i]]] :
        p \in { q \in [1..Len(s) -> 1..Len(s)] :
                  \A i, j \in 1..Len(s) : i # j => q[i] # q[j] } }

\* C8: the view is ordered most recent first, and it is the same whatever
\* the order in which the cached orders were delivered (ties are decided by
\* the orders themselves, not by their arrival).
C8_RecentFirstTiesById ==
    (variant = "collab" /\ ~crashed) =>
        /\ \A i \in 1..(Len(filteredOrders) - 1) :
              filteredOrders[i].order_date >= filteredOrders[i + 1].order_date
        /\ \A p \in PermutationsOf(orders) :
              useMemoFilteredOrders(p, filter, searchTerm).value = filteredOrders

\* The states of §4.4 that permit no further transition.
TerminalStatuses == {"shipped", "cancelled"}

StatusRank(st) == CHOOSE k \in 1..Len(STATUS_OPTIONS) : STATUS_OPTIONS[k] = st

\* A forward transition in the most permissive reading of §4.4: to a later
\* stage of new, preparing, ready_to_ship, shipped, or to cancelled.
ForwardTransition(from, to) ==
    /\ from \notin TerminalStatuses
    /\ to = "cancelled" \/ StatusRank(to) > StatusRank(from)

\* C9: no update call is issued to the adapter for an order whose status in
\* the cache is terminal.
C9_NoUpdateFromTerminal ==
    \A w \in inflight :
        w.op = "update" => w.from \notin TerminalStatuses

\* C10: an update call is issued only for an allowed forward transition:
\* none moves an order that is not in a terminal state backward or to its
\* own status.
C10_OnlyForwardUpdates ==
    \A w \in inflight :
        (w.op = "update" /\ w.from \in StatusValues \ TerminalStatuses)
            => ForwardTransition(w.from, w.patch.status)

\* updateDoc as the store applies it: the fields of the patch replace the
\* document's, every other field of the document stays.
applied(document, patch) ==
    [f \in DOMAIN document \cup DOMAIN patch |->
        IF f \in DOMAIN patch THEN patch[f] ELSE document[f]]

\* The fields a status update may write: the status and the update stamps.
StatusAndStampFields == {"status", "updated_by", "updated_at", "updatedAt"}

\* Edits of one other field of an order by another actor.
OtherActorEdits ==
    { [customer_name |-> <<"z">>], [marketplace |-> <<"z">>],
      [customerName |-> <<"z">>] }

\* C11: the patch of every status update sent to the adapter holds only the
\* status and the update-stamp fields, so a field another actor edits at the
\* same time keeps that actor's value once both writes are applied, whichever
\* is applied first.
C11_PatchIsStatusAndStamps ==
    \A w \in inflight :
        w.op = "update" =>
            /\ "status" \in DOMAIN w.patch
            /\ DOMAIN w.patch \subseteq StatusAndStampFields
            /\ \A document \in OrderBodies \cup PerUserBodies, edit \in OtherActorEdits :
                  \A f \in DOMAIN edit :
                     /\ applied(applied(document, edit), w.patch)[f] = edit[f]
                     /\ applied(applied(document, w.patch), edit)[f] = edit[f]

\* Status updates of both dashboards have been sent: of the collaborative one
\* for an order with all its fields, of the per-user one for a pending order.
C11_Witness ==
    \E w \in inflight :
        /\ w.op = "update"
        /\ \/ variant = "collab" /\ w.from = "new" /\ w.patch.status = "preparing"
           \/ variant = "perUser" /\ w.from = "Pending"

\* C12: every record in the orders cache was delivered to the subscription of
\* the current actor id: none stays from the subscription of an earlier one.
C12_CacheFromCurrentIdentity ==
    orders # <<>> => lastDelivery.user = userId

\* C13: an addDoc call is issued by the collaborative dashboard only while
\* linkedMarketplaces is not empty.
C13_CreateNeedsIntegration ==
    [][(variant = "collab" /\ \E w \in inflight' \ inflight : w.op = "create")
         => Len(linkedMarketplaces) # 0]_vars

\* A create was submitted and the integrations list became empty while the
\* call awaited its outcome.
C13_Witness ==
    /\ variant = "collab"
    /\ Len(linkedMarketplaces) = 0
    /\ \E w \in inflight : w.op = "create"

\* C14: no create whose customer name or item is empty reaches the adapter.
C14_CreateHasRequiredFields ==
    \A w \in inflight :
        w.op = "create" =>
            IF variant = "collab"
            THEN w.record.customer_name # <<>>
            ELSE w.record.customerName # <<>> /\ w.record.item # ""

CreationStampFields == {"createdAt", "created_at", "order_date"}

UpdateStampFields == {"updatedAt", "updated_at"}

\* C15: every record a create sends to the adapter has a creation timestamp,
\* an update timestamp, created_by and updated_by equal to the actor id, and
\* a non-empty order identifier.
C15_CreateIsStamped ==
    \A w \in inflight :
        w.op = "create" =>
            /\ DOMAIN w.record \cap CreationStampFields # {}
            /\ DOMAIN w.record \cap UpdateStampFields # {}
            /\ Has(w.record, "created_by") /\ w.record.created_by = userId
            /\ Has(w.record, "updated_by") /\ w.record.updated_by = userId
            /\ Has(w.record, "order_id") /\ w.record.order_id # <<>>

\* C16: the orders cache, contents and element order, changes only in a
\* step of the snapshot delivery callback.
C16_CacheChangedByDeliveryOnly ==
    [][orders' # orders =>
          \/ \E docs \in OrderSnapshots \cup WriteOrderSnapshots, now \in NowValues :
                OrdersSnapshot(docs, now)
          \/ \E docs \in PerUserSnapshots \cup WritePerUserSnapshots :
                PerUserSnapshot(docs)]_vars

\* C17: no adapter write is addressed to a path built from a null actor id.
C17_NoWriteToNullPath ==
    \A w \in inflight : Null \notin Range(w.path)

\* A step in which the adapter's outcome for the write w arrives.
Settles(w, ok) ==
    \/ UpdateSettles(w, ok)
    \/ DeleteSettles(w, ok)
    \/ AddSettles(w, ok)
    \/ PerUserWriteSettles(w, ok)

\* C18: a step issues at most one adapter call; when the adapter rejects a
\* write, the rejection is reported (setError, or alert in the per-user
\* dashboard) and the step issues no call: the write is given up.
C18_NoRetry ==
    [][/\ Cardinality(inflight' \ inflight) <= 1
       /\ \A w \in inflight :
             Settles(w, FALSE) =>
                /\ inflight' = inflight \ {w}
                /\ IF variant = "collab" THEN error' = w.op ELSE lastAlert' = w.op]_vars

\* The adapter has rejected a status update of the collaborative dashboard
\* and no call is pending.
C18_Witness ==
    /\ variant = "collab"
    /\ error = "update"
    /\ inflight = {}

\* The start state of the lifecycle of each dashboard.
StartStatus == IF variant = "collab" THEN "new" ELSE "Pending"

\* C19: every record a create sends to the adapter has the start status.
C19_CreateStartsAtStart ==
    \A w \in inflight : w.op = "create" => w.record.status = StartStatus

\* C20: every order in the cache of the collaborative dashboard has a status
\* of STATUS_OPTIONS.
C20_CachedStatusInSet ==
    variant = "collab" =>
        \A i \in 1..Len(orders) :
            Has(orders[i], "status") /\ orders[i].status \in StatusValues

RECURSIVE SumOfCounts(_)
SumOfCounts(k) ==
    IF k = 0 THEN 0 ELSE statusCount(STATUS_OPTIONS[k]) + SumOfCounts(k - 1)

\* C21: the counts the filter selector shows for the STATUS_OPTIONS values
\* add up to the number of orders in the cache.
C21_CountsSumToTotal ==
    (variant = "collab" /\ Screen = "dashboard") =>
        SumOfCounts(Len(STATUS_OPTIONS)) = Len(orders)

\* The session-ready signal of the dashboard mounted.
SessionReady == IF variant = "collab" THEN isAuthReady ELSE isFirebaseReady

\* C22: a listener is attached to a collection only in a state where the
\* session-ready signal is true and the store handle is set.
C22_SubscribedOnlyWhenReady ==
    liveListeners # {} => (SessionReady /\ db)

\* Both listeners of the collaborative dashboard are attached for the
\* second user.
C22_Witness ==
    /\ variant = "collab"
    /\ userId = "u2"
    /\ Cardinality(liveListeners) = 2

\* The "synchronization unavailable" message is on screen: the error page of
\* the collaborative dashboard, the offline banner of the per-user one.
ShowsUnavailable ==
    IF variant = "collab"
    THEN Screen = "error"
    ELSE Screen = "dashboard" /\ ~isFirebaseReady /\ error # Null

\* C23: once the dashboard has started without a store configuration, no
\* listener is attached and the unavailable message is shown.
C23_ConfigAbsentShowsUnavailable ==
    (mounted /\ firebaseConfig = Null) =>
        (liveListeners = {} /\ ShowsUnavailable)

\* C24: every delete call sent to the adapter was confirmed by the user.
C24_DeleteIsConfirmed ==
    \A w \in inflight : w.op = "delete" => w.confirmed

\* C25: each cache has at most one listener attached, every listener attached
\* is of the current actor id, and none stays attached after the dashboard was
\* unmounted.
C25_OneListenerPerCache ==
    /\ \A c \in {"orders", "marketplaces"} :
          Cardinality({l \in liveListeners : l.cache = c}) <= 1
    /\ \A l \in liveListeners : l.user = userId
    /\ crashed => liveListeners = {}

\* The subscription of the first user delivered orders and was superseded:
\* the listeners attached are those of the second user.
C25_Witness ==
    /\ variant = "collab"
    /\ lastDelivery.user = "u1"
    /\ userId = "u2"
    /\ liveListeners = attached("u2")

\* A delivery (snapshot or error) to the listener l.
DeliveryBy(l) ==
    \/ \E docs \in OrderSnapshots, now \in NowValues : OrdersSnapshotBy(l, docs, now)
    \/ OrdersErrorBy(l)
    \/ \E docs \in MarketplaceSnapshots : MarketplacesSnapshotBy(l, docs)
    \/ MarketplacesErrorBy(l)
    \/ \E docs \in PerUserSnapshots : PerUserSnapshotBy(l, docs)
    \/ PerUserSnapshotErrorBy(l)

C27_FailedWriteKeepsView ==
    (variant = "collab" /\ error \in {"create", "update", "delete"} /\ ~crashed)
        => Screen = "dashboard"

\* No auth notification, sign-in outcome or delivery is due.
NothingDue == pendingAuth = Null /\ ~signInPending /\ liveListeners = {}

\* C28: once the store handle is set, the collaborative dashboard does not
\* come to rest on the loading screen: when nothing more is due, loading is
\* false and isAuthReady is true.
C28_LeavesLoading ==
    (variant = "collab" /\ db /\ ~crashed /\ NothingDue)
        => (~loading /\ isAuthReady)

\* C29: at most one addDoc call of AddOrderForm awaits its outcome.
C29_OneCreateOutstanding ==
    variant = "collab" =>
        Cardinality({w \in inflight : w.op = "create"}) <= 1

\* The chain of the per-user dashboard.
PerUserChain == <<"Pending", "Processing", "Shipped", "Delivered">>

ChainRank(st) == CHOOSE k \in 1..Len(PerUserChain) : PerUserChain[k] = st

\* C30: every update the per-user dashboard sends is for an order whose
\* cached status is in the chain and not Delivered, and asks for the next
\* status of the chain.
C30_AdvanceToSuccessorOnly ==
    variant = "perUser" =>
        \A w \in inflight :
            w.op = "update" =>
                /\ w.from \in Range(PerUserChain) \ {"Delivered"}
                /\ w.patch.status = PerUserChain[ChainRank(w.from) + 1]

====
